---- MODULE Spec2Model ----
(***************************************************************************)
(* Model of the transaction engine of config-manager (operations.go):      *)
(* Link/Copy/Template operations with backup-on-conflict, and the          *)
(* Transaction that executes them in order and rolls back on failure.      *)
(*                                                                         *)
(* The filesystem is a function from paths to entries.  A path is a pair   *)
(* <<t, s>>: s = NoStamp is the target path t itself, s >= 0 is the path   *)
(* t + ".backup." + <timestamp s> that sits beside it.                     *)
(***************************************************************************)
EXTENDS Integers, Sequences, FiniteSets, TLC

\* ---------------------------------------------------------------- bounds
NumTargets == 1
MaxTime == 1
MaxOps == 3
MaxExecs == 1

\* ------------------------------------------------------------ filesystem
NoStamp == -1

Targets == 1..NumTargets

Stamps == 0..MaxTime

TargetPath(t) == <<t, NoStamp>>

Paths == {<<t, s>> : t \in Targets, s \in Stamps \cup {NoStamp}}

\* op.backupPath before any backup was attempted (the empty string)
NoPath == <<0, NoStamp>>

\* entries a user may own before the program runs
UserEntries == {"userFile", "userDir", "oldBackup"}

\* entries the operations create
MadeEntries == {"symlink", "copiedFile", "copiedDir", "placeholder", "rendered", "partialFile", "partialDir"}

Entries == {"none"} \cup UserEntries \cup MadeEntries

\* a user entry is tagged with the path it was first seen at, so that two
\* files of the same kind at different paths are different data
Entry(e, p) == [e |-> e, at |-> p]

Absent == Entry("none", NoPath)

IsDir(x) == x.e \in {"userDir", "copiedDir", "partialDir"}

Exists(f, p) == f[p] # Absent

\* os.Rename(old, new) fails when old is missing, or when new exists and
\* either side is a (non-empty) directory; otherwise it replaces new.
RenameFails(f, old, new) ==
    \/ ~Exists(f, old)
    \/ Exists(f, new) /\ (IsDir(f[old]) \/ IsDir(f[new]))

Rename(f, old, new) == [f EXCEPT ![new] = f[old], ![old] = Absent]

\* os.Remove(p) on an existing entry fails on a non-empty directory (every
\* directory of the model holds something: the user's, a copy, a partial copy)
RemoveFails(f, p) == IsDir(f[p])

Remove(f, p) == [f EXCEPT ![p] = Absent]

\* targetPath + ".backup." + time.Now().Format("20060102-150405")
BackupPath(p, t) == <<p[1], t>>

\* ------------------------------------------------------------ operations
Kinds == {"link", "copy", "template"}

\* sourcePath of an operation: "" is CopyOperation's create-a-basic-file
\* sentinel, "dir" a source that is a directory (isDir), "file" any other.
\* When the source is a path of the modelled filesystem, the field `from` of
\* the operation holds that path (NoPath when it lies outside).
Sources == {"", "file", "dir"}

NewLinkOperation(target) ==
    [kind |-> "link", sourcePath |-> "file", targetPath |-> target, from |-> NoPath,
     backupPath |-> NoPath, created |-> FALSE, backed |-> FALSE, isDir |-> FALSE]

NewCopyOperation(src, target) ==
    [kind |-> "copy", sourcePath |-> src, targetPath |-> target, from |-> NoPath,
     backupPath |-> NoPath, created |-> FALSE, backed |-> FALSE, isDir |-> (src = "dir")]

NewTemplateOperation(target) ==
    [kind |-> "template", sourcePath |-> "file", targetPath |-> target, from |-> NoPath,
     backupPath |-> NoPath, created |-> FALSE, backed |-> FALSE, isDir |-> FALSE]

NewOps == {NewLinkOperation(TargetPath(t)) : t \in Targets}
          \cup {NewCopyOperation(s, TargetPath(t)) : s \in Sources, t \in Targets}
          \cup {NewTemplateOperation(TargetPath(t)) : t \in Targets}

\* The system call an Execute may be made to fail at (I/O error, permission,
\* disk full): "backup" the rename-aside; "create" the MkdirAll or the call
\* that creates the artifact, before anything is written; "partial" a copy or
\* a rendering that fails after the output was created.
Faults == {"none", "backup", "create", "partial"}

\* the first lines of every Execute: if the target exists, rename it aside
BackupStep(op, f, t, fault) ==
    IF Exists(f, op.targetPath)
    THEN LET bp == BackupPath(op.targetPath, t)
         IN IF fault = "backup" \/ RenameFails(f, op.targetPath, bp)
            THEN [op |-> [op EXCEPT !.backupPath = bp], fs |-> f, err |-> "backup existing file"]
            ELSE [op |-> [op EXCEPT !.backupPath = bp, !.backed = TRUE],
                  fs |-> Rename(f, op.targetPath, bp), err |-> ""]
    ELSE [op |-> op, fs |-> f, err |-> ""]

\* what a failed creation leaves at the target
PartialEntry(op) ==
    IF op.kind = "copy" /\ op.isDir THEN "partialDir" ELSE "partialFile"

\* what a successful creation leaves at the target
MadeEntry(op) ==
    CASE op.kind = "link" -> "symlink"
      [] op.kind = "template" -> "rendered"
      [] op.kind = "copy" /\ op.sourcePath = "" -> "placeholder"
      [] op.kind = "copy" /\ op.isDir -> "copiedDir"
      [] OTHER -> "copiedFile"

\* the path a symlink at p leads to (a symlink entry carries the path it
\* points at), p itself for anything else
Deref(f, p) == IF f[p].e = "symlink" THEN f[p].at ELSE p

\* os.Stat(p) succeeds: it follows a symlink, os.Lstat (Exists) does not
Stat(f, p) == Exists(f, p) /\ Exists(f, Deref(f, p))

\* what the created entry carries: a symlink the path it points at, a copy
\* the data of the file it was copied from, anything else its own path
MadeTag(op, f) ==
    CASE op.kind = "link" /\ op.from # NoPath -> op.from
      [] op.kind = "copy" /\ op.from # NoPath -> f[Deref(f, op.from)].at
      [] OTHER -> op.targetPath

\* copyFile / copyDirectory cannot open a source that is not there
SourceMissing(op, f) ==
    op.kind = "copy" /\ op.sourcePath # "" /\ op.from # NoPath /\ ~Stat(f, op.from)

CreateErr(op) ==
    CASE op.kind = "link" -> "create symlink"
      [] op.kind = "template" -> "process template"
      [] op.kind = "copy" /\ op.sourcePath = "" -> "create basic file"
      [] OTHER -> "copy file"

\* the rest of Execute after the backup: MkdirAll, then create the artifact
\* (os.Symlink, os.WriteFile, copyFile, copyDirectory, createFromTemplate)
CreateStep(b, fault) ==
    LET op == b.op
        p == op.targetPath
    IN IF fault = "create" \/ SourceMissing(op, b.fs)
       THEN [op |-> op, fs |-> b.fs, err |-> CreateErr(op)]
       ELSE IF fault = "partial" /\ op.kind # "link"
       THEN [op |-> op, fs |-> [b.fs EXCEPT ![p] = Entry(PartialEntry(op), p)], err |-> CreateErr(op)]
       ELSE [op |-> [op EXCEPT !.created = TRUE],
             fs |-> [b.fs EXCEPT ![p] = Entry(MadeEntry(op), MadeTag(op, b.fs))], err |-> ""]

\* LinkOperation.Execute, CopyOperation.Execute, TemplateOperation.Execute
OpExecute(op, f, t, fault) ==
    LET b == BackupStep(op, f, t, fault)
    IN IF b.err # "" THEN b ELSE CreateStep(b, fault)

\* The system calls a Rollback may be made to fail at: rmFail the removal of
\* the created artifact, mvFail the rename that restores the backup.

\* removal of what the operation created: os.Remove for Link and Template,
\* os.RemoveAll for Copy; a missing entry is not an error (os.IsNotExist)
RemoveCreated(op, f, rmFail) ==
    LET p == op.targetPath
    IN IF ~op.created THEN [fs |-> f, errs |-> {}]
       ELSE IF ~Exists(f, p) THEN [fs |-> f, errs |-> {}]
       ELSE IF rmFail \/ (op.kind # "copy" /\ RemoveFails(f, p))
       THEN [fs |-> f, errs |-> {"remove"}]
       ELSE [fs |-> Remove(f, p), errs |-> {}]

\* restoring the backup: os.Rename(op.backupPath, op.targetPath)
RestoreBackup(op, f, mvFail) ==
    IF ~(op.backed /\ op.backupPath # NoPath) THEN [fs |-> f, errs |-> {}]
    ELSE IF mvFail \/ RenameFails(f, op.backupPath, op.targetPath)
    THEN [fs |-> f, errs |-> {"restore backup"}]
    ELSE [fs |-> Rename(f, op.backupPath, op.targetPath), errs |-> {}]

\* mutant of OpRollback: the "if op.created" guard is forgotten
OpRollbackUnguarded(op, f, rmFail, mvFail) ==
    LET r == RemoveCreated([op EXCEPT !.created = TRUE], f, rmFail)
        b == RestoreBackup(op, r.fs, mvFail)
    IN [fs |-> b.fs, errs |-> r.errs \cup b.errs]

\* mutant of OpRollback: a failed removal ends the Rollback
OpRollbackShortCircuit(op, f, rmFail, mvFail) ==
    LET r == RemoveCreated(op, f, rmFail)
        b == RestoreBackup(op, r.fs, mvFail)
    IN IF r.errs # {} THEN r ELSE [fs |-> b.fs, errs |-> r.errs \cup b.errs]

\* LinkOperation.Rollback, CopyOperation.Rollback, TemplateOperation.Rollback:
\* both sub-steps are attempted, the errors are collected in a MultiError
OpRollback(op, f, rmFail, mvFail) ==
    LET r == RemoveCreated(op, f, rmFail)
        b == RestoreBackup(op, r.fs, mvFail)
    IN [fs |-> b.fs, errs |-> r.errs \cup b.errs]

\* MultiError.HasErrors
HasErrors(errs) == errs # {}

\* ------------------------------------------------------ strings and paths
\* A string is the sequence of its characters, a path the sequence of its
\* components ("/d/f" is << <<"d">>, <<"f">> >>), so that prefixes and
\* concatenations are what they are on the program's strings.
NumFileTargets == 2

MaxFiles == 2

Up == <<".", ".">>

Front(s) == SubSeq(s, 1, Len(s) - 1)

\* filepath.Clean of an absolute path: ".." steps to the parent directory,
\* and the parent of the root is the root
RECURSIVE Clean(_)
Clean(p) ==
    IF p = <<>> THEN <<>>
    ELSE LET c == Clean(Front(p))
             last == p[Len(p)]
         IN IF last = Up THEN (IF c = <<>> THEN <<>> ELSE Front(c))
            ELSE IF last = <<>> THEN c
            ELSE Append(c, last)

\* filepath.Join(dir, rel...)
Join(dir, rel) == Clean(dir \o rel)

\* the characters of an absolute path
RECURSIVE PathString(_)
PathString(p) ==
    IF p = <<>> THEN <<>>
    ELSE PathString(Front(p)) \o <<"/">> \o p[Len(p)]

\* strings.HasPrefix
HasPrefix(s, prefix) ==
    Len(s) >= Len(prefix) /\ SubSeq(s, 1, Len(prefix)) = prefix

\* strings.TrimPrefix(s, ".")
TrimDot(s) == IF s # <<>> /\ s[1] = "." THEN Tail(s) ELSE s

\* config.DotfilesDir and config.ConfigDir: "/d" and "/k"
DotfilesDir == << <<"d">> >>

ConfigDir == << <<"k">> >>

\* the relative source paths a tracked file may name: "", "f", "g",
\* "../o" (outside the root) and "../dx/f" (in a sibling directory whose name
\* starts with the root's name)
FileSourceList ==
    << <<>>,
       << <<"f">> >>,
       << <<"g">> >>,
       << Up, <<"o">> >>,
       << Up, <<"d", "x">>, <<"f">> >> >>

FileSources == {FileSourceList[n] : n \in 1..Len(FileSourceList)}

\* the filesystem path filepath.Join(config.DotfilesDir, file.Source): the
\* paths the sources resolve to are numbered after the targets
SourceId(src) ==
    CHOOSE n \in 1..Len(FileSourceList) :
        /\ Join(DotfilesDir, FileSourceList[n]) = Join(DotfilesDir, src)
        /\ \A m \in 1..(n - 1) :
              Join(DotfilesDir, FileSourceList[m]) # Join(DotfilesDir, src)

SourcePath(src) == <<NumFileTargets + SourceId(src), NoStamp>>

\* file.Target: 0 is the empty string, t >= 1 the absolute path of target t
FileTargets == 0..NumFileTargets

FileNames == {<<>>, <<"a">>, <<"b">>}

FileCategories == {<<>>, <<"c">>, <<"u">>}

\* the paths of the filesystem when files are linked: the targets, the
\* sources, and the backup paths beside each
LinkPaths ==
    {<<b, s>> : b \in 1..(NumFileTargets + Len(FileSourceList)),
                s \in Stamps \cup {NoStamp}}

\* --------------------------------------------------------------- manifest
\* a ConfigFile as it is added or imported: the runtime flags are unset
ConfigFile(name, source, target, category, template) ==
    [Name |-> name, Source |-> source, Target |-> target, Category |-> category,
     Template |-> template, IsLinked |-> FALSE, HasConflict |-> FALSE]

NoVariables == [k \in {} |-> ""]

\* a Config with nothing tracked
EmptyConfig ==
    [Files |-> <<>>, Categories |-> <<>>, Variables |-> NoVariables,
     TemplateExts |-> <<>>, Editor |-> "", Shell |-> ""]

Contains(list, x) == \E n \in 1..Len(list) : list[n] = x

\* mutant of updateSingleFileStatus: the symlink is never read back as the
\* source
updateSingleFileStatusNeverLinked(file, f) ==
    [file EXCEPT !.IsLinked = FALSE,
                 !.HasConflict = file.Target # 0 /\ Exists(f, TargetPath(file.Target))]

\* updateSingleFileStatus: linked when the target is a symlink that reads
\* back as filepath.Join(DotfilesDir, Source), a conflict when it is anything
\* else that exists; os.Lstat("") finds nothing
updateSingleFileStatus(file, f) ==
    LET p == TargetPath(file.Target)
    IN IF file.Target = 0 \/ ~Exists(f, p)
       THEN [file EXCEPT !.IsLinked = FALSE, !.HasConflict = FALSE]
       ELSE IF f[p].e = "symlink"
       THEN [file EXCEPT !.IsLinked = (f[p].at = SourcePath(file.Source)),
                         !.HasConflict = (f[p].at # SourcePath(file.Source))]
       ELSE [file EXCEPT !.IsLinked = FALSE, !.HasConflict = TRUE]

\* removeDuplicateFiles: the first file of every target is kept
RECURSIVE removeDuplicateFiles(_)
removeDuplicateFiles(files) ==
    IF files = <<>> THEN <<>>
    ELSE LET u == removeDuplicateFiles(Front(files))
             last == files[Len(files)]
         IN IF \E n \in 1..Len(u) : u[n].Target = last.Target
            THEN u
            ELSE Append(u, last)

\* updateFileStatuses
updateFileStatuses(c, f) ==
    LET d == removeDuplicateFiles(c.Files)
    IN [c EXCEPT !.Files = [n \in 1..Len(d) |-> updateSingleFileStatus(d[n], f)]]

\* the first tracked file AddConfigFile's duplicate check stops at: one with
\* the same target, or with the same name in the same category (0 if none)
FirstClash(c, file) ==
    LET hits == {n \in 1..Len(c.Files) :
                    \/ c.Files[n].Target = file.Target
                    \/ c.Files[n].Name = file.Name /\ c.Files[n].Category = file.Category}
    IN IF hits = {} THEN 0 ELSE CHOOSE n \in hits : \A m \in hits : n <= m

\* mutant of AddConfigFileError: the duplicate check is skipped
AddConfigFileErrorNoDuplicateCheck(c, file) ==
    IF file.Name = <<>> THEN "file name cannot be empty"
    ELSE IF file.Target = 0 THEN "target path cannot be empty"
    ELSE IF file.Category # <<>> /\ ~Contains(c.Categories, file.Category)
    THEN "category not defined in configuration"
    ELSE ""

\* the validation error AddConfigFile returns ("" when it accepts the file)
AddConfigFileError(c, file) ==
    IF file.Name = <<>> THEN "file name cannot be empty"
    ELSE IF file.Target = 0 THEN "target path cannot be empty"
    ELSE IF FirstClash(c, file) # 0
    THEN IF c.Files[FirstClash(c, file)].Target = file.Target
         THEN "target already managed"
         ELSE "file with same name already exists in category"
    ELSE IF file.Category # <<>> /\ ~Contains(c.Categories, file.Category)
    THEN "category not defined in configuration"
    ELSE ""

\* mutant of AddConfigFile: a rejected file is appended all the same
AddConfigFileAppendsAnyway(c, file, f) ==
    [config |-> [c EXCEPT !.Files = Append(c.Files, updateSingleFileStatus(file, f))],
     err |-> AddConfigFileError(c, file)]

\* Config.AddConfigFile: the file is appended and its status computed, or a
\* validation error is returned
AddConfigFile(c, file, f) ==
    LET err == AddConfigFileError(c, file)
    IN IF err # "" THEN [config |-> c, err |-> err]
       ELSE [config |-> [c EXCEPT !.Files = Append(c.Files, updateSingleFileStatus(file, f))],
             err |-> ""]

\* s without its n-th element
RemoveAt(s, n) == SubSeq(s, 1, n - 1) \o SubSeq(s, n + 1, Len(s))

IndexOf(list, x) ==
    IF Contains(list, x)
    THEN CHOOSE n \in 1..Len(list) : list[n] = x /\ \A m \in 1..(n - 1) : list[m] # x
    ELSE 0

\* Config.RemoveConfigFile: the first file with that target is removed
RemoveConfigFile(c, targetPath) ==
    LET hits == {n \in 1..Len(c.Files) : c.Files[n].Target = targetPath}
    IN IF hits = {} THEN [config |-> c, err |-> "file not found in configuration"]
       ELSE [config |-> [c EXCEPT !.Files = RemoveAt(c.Files, CHOOSE n \in hits : \A m \in hits : n <= m)],
             err |-> ""]

\* Config.AddCategory: the category is appended before its directory is made
AddCategory(c, category, mkdirFails) ==
    IF category = <<>> THEN [config |-> c, err |-> "category name cannot be empty"]
    ELSE IF Contains(c.Categories, category)
    THEN [config |-> c, err |-> "category already exists"]
    ELSE [config |-> [c EXCEPT !.Categories = Append(c.Categories, category)],
          err |-> IF mkdirFails THEN "create category directory" ELSE ""]

\* mutant of CategoryInUse: a category is never held to be in use
CategoryNeverInUse(c, category) == FALSE

\* "category is used by file": some tracked file names the category
CategoryInUse(c, category) ==
    \E n \in 1..Len(c.Files) : c.Files[n].Category = category

\* Config.RemoveCategory: refused while a file uses the category
RemoveCategory(c, category) ==
    IF CategoryInUse(c, category)
    THEN [config |-> c, err |-> "category is used by file"]
    ELSE IF Contains(c.Categories, category)
    THEN [config |-> [c EXCEPT !.Categories = RemoveAt(c.Categories, IndexOf(c.Categories, category))],
          err |-> ""]
    ELSE [config |-> c, err |-> ""]

\* list with the elements of items it does not hold yet appended in order
RECURSIVE AppendMissing(_, _)
AppendMissing(list, items) ==
    IF items = <<>> THEN list
    ELSE LET l == AppendMissing(list, Front(items))
             x == items[Len(items)]
         IN IF Contains(l, x) THEN l ELSE Append(l, x)

\* mergeConfig's loop over the imported files: AddConfigFile each, skipping
\* the ones it rejects (AddConfigFile returns validation errors only)
RECURSIVE MergeFiles(_, _, _)
MergeFiles(c, files, f) ==
    IF files = <<>> THEN c
    ELSE AddConfigFile(MergeFiles(c, Front(files), f), files[Len(files)], f).config

\* Config.mergeConfig
mergeConfig(c, imported, f) ==
    LET c1 == [c EXCEPT
                 !.Categories = AppendMissing(c.Categories, imported.Categories),
                 !.Variables = [k \in DOMAIN c.Variables \cup DOMAIN imported.Variables |->
                                  IF k \in DOMAIN imported.Variables
                                  THEN imported.Variables[k] ELSE c.Variables[k]],
                 !.TemplateExts = AppendMissing(c.TemplateExts, imported.TemplateExts)]
        c2 == MergeFiles(c1, imported.Files, f)
    IN [c2 EXCEPT
          !.Editor = IF c.Editor = "" \/ c.Editor = "vim" THEN imported.Editor ELSE c.Editor,
          !.Shell = IF c.Shell = "" \/ c.Shell = "bash" THEN imported.Shell ELSE c.Shell]

\* Config.ImportConfig of data that parses as `imported`: merged into the
\* manifest, or put in its place and then deduplicated by updateFileStatuses
ImportConfig(c, imported, mergeMode, f) ==
    IF mergeMode THEN mergeConfig(c, imported, f)
    ELSE updateFileStatuses(imported, f)

\* -------------------------------------------------------------- templates
\* filepath.Join(config.ConfigDir, "templates")
TemplatesDir == Join(ConfigDir, << <<"templates">> >>)

\* the template file names the lookups try for one extension, in order
NamePatterns(fileName, category, ext) ==
    << << TrimDot(fileName) \o ext >>,
       << fileName \o ext >>,
       << category \o <<"_">> \o TrimDot(fileName) \o ext >> >>

\* the candidates of the standalone findTemplateFile: for every extension
\* the three name patterns, then <category>/<basename><ext>
RECURSIVE Candidates4(_, _, _)
Candidates4(exts, fileName, category) ==
    IF exts = <<>> THEN <<>>
    ELSE LET ext == exts[Len(exts)]
             pats == NamePatterns(fileName, category, ext)
         IN Candidates4(Front(exts), fileName, category)
            \o [n \in 1..3 |-> Join(TemplatesDir, pats[n])]
            \o << Join(TemplatesDir, <<category, TrimDot(fileName) \o ext>>) >>

\* the candidates of Config.findTemplateFile: the three name patterns only
RECURSIVE Candidates3(_, _, _)
Candidates3(exts, fileName, category) ==
    IF exts = <<>> THEN <<>>
    ELSE LET ext == exts[Len(exts)]
             pats == NamePatterns(fileName, category, ext)
         IN Candidates3(Front(exts), fileName, category)
            \o [n \in 1..3 |-> Join(TemplatesDir, pats[n])]

\* "" for no template found
NoTemplate == <<>>

\* the first candidate os.Stat finds in the template files t
FirstFound(cands, t) ==
    LET hits == {n \in 1..Len(cands) : cands[n] \in DOMAIN t}
    IN IF hits = {} THEN NoTemplate
       ELSE cands[CHOOSE n \in hits : \A m \in hits : n <= m]

\* findTemplateFile(config, fileName, source, category) of the template code
findTemplateFile(c, file, t) ==
    FirstFound(Candidates4(c.TemplateExts, file.Name, file.Category), t)

\* Config.findTemplateFile of the validation code
ConfigFindTemplateFile(c, file, t) ==
    FirstFound(Candidates3(c.TemplateExts, file.Name, file.Category), t)

\* validateTemplateFileContent: the template parses and executes on dummy data
validateTemplateFileContent(path, t) ==
    IF t[path] = "syntax" THEN "parse template" ELSE ""

\* ------------------------------------------------------------- validation
\* an error of field `field` about files[n] (n = 0: about the configuration)
ErrorIf(cond, field, msg, n) == IF cond THEN {<<field, msg, n>>} ELSE {}

\* validateBasicConfig (ConfigDir and DotfilesDir are set and absolute)
validateBasicConfig(c) ==
    ErrorIf(Len(c.Categories) = 0, "categories", "no categories defined", 0)
    \cup ErrorIf(\E m, n \in 1..Len(c.Categories) : m < n /\ c.Categories[m] = c.Categories[n],
                 "categories", "duplicate category", 0)

\* validateFiles' containment test: the joined path does not start with the
\* characters of DotfilesDir
SourceEscapes(source) ==
    ~HasPrefix(PathString(Join(DotfilesDir, source)), PathString(DotfilesDir))

\* validateFiles (every non-empty target of the model is an absolute path)
validateFiles(c) ==
    UNION {
        LET file == c.Files[n]
        IN ErrorIf(file.Name = <<>>, "name", "file name cannot be empty", n)
           \cup ErrorIf(file.Source = <<>>, "source", "source path cannot be empty", n)
           \cup ErrorIf(file.Target = 0, "target", "target path cannot be empty", n)
           \cup ErrorIf(file.Target # 0 /\ \E m \in 1..(n - 1) : c.Files[m].Target = file.Target,
                        "target", "duplicate target", n)
           \cup ErrorIf(file.Category # <<>> /\ ~Contains(c.Categories, file.Category),
                        "category", "category not defined in config", n)
           \cup ErrorIf(file.Source # <<>> /\ SourceEscapes(file.Source),
                        "source", "source path escapes dotfiles directory", n)
        : n \in 1..Len(c.Files)}

\* validateTemplates (validateTemplateVariables asks for built-in variables
\* only and reports nothing)
validateTemplates(c, t) ==
    UNION {
        LET file == c.Files[n]
            templatePath == ConfigFindTemplateFile(c, file, t)
        IN IF ~file.Template THEN {}
           ELSE IF templatePath = NoTemplate
           THEN {<<"template", "template file not found", n>>}
           ELSE ErrorIf(validateTemplateFileContent(templatePath, t) # "",
                        "template", "template syntax error", n)
        : n \in 1..Len(c.Files)}

\* the editors exec.LookPath finds
InstalledEditors == {"vim"}

\* validateEditor
validateEditor(c) ==
    IF c.Editor = "" THEN {<<"editor", "editor not configured", 0>>}
    ELSE ErrorIf(c.Editor \notin InstalledEditors, "editor", "editor not found in PATH", 0)

\* Config.Validate: the validation errors of the configuration
Validate(c, t) ==
    validateBasicConfig(c) \cup validateFiles(c) \cup validateTemplates(c, t)
    \cup validateEditor(c)

\* mutant of ValidationFailed: the validation errors are ignored
ValidationFailedIgnored(errors) == FALSE

\* "if errors := config.Validate(); len(errors) > 0"
ValidationFailed(errors) == errors # {}

\* ----------------------------------------------------------- plan builder
\* mutant of createAtomicLinkOperation: the existing target is never copied
createAtomicLinkOperationNoCopy(c, file, f, t) ==
    <<[NewLinkOperation(TargetPath(file.Target)) EXCEPT !.from = SourcePath(file.Source)]>>

\* mutant of createAtomicLinkOperation: no placeholder is planned for a
\* template file without a template
createAtomicLinkOperationNoPlaceholder(c, file, f, t) ==
    LET sourcePath == SourcePath(file.Source)
        target == TargetPath(file.Target)
        linkOp == [NewLinkOperation(target) EXCEPT !.from = sourcePath]
    IN IF ~Stat(f, sourcePath) /\ file.Template /\ findTemplateFile(c, file, t) # NoTemplate
       THEN <<NewTemplateOperation(sourcePath), linkOp>>
       ELSE IF ~Stat(f, sourcePath) /\ ~file.Template /\ Stat(f, target)
       THEN <<[NewCopyOperation(IF IsDir(f[Deref(f, target)]) THEN "dir" ELSE "file", sourcePath)
                  EXCEPT !.from = target], linkOp>>
       ELSE <<linkOp>>

\* createAtomicLinkOperation: the operations of the transaction that links
\* `file`, planned from what os.Stat finds at the source and at the target
createAtomicLinkOperation(c, file, f, t) ==
    LET sourcePath == SourcePath(file.Source)
        target == TargetPath(file.Target)
        linkOp == [NewLinkOperation(target) EXCEPT !.from = sourcePath]
        prep ==
          IF Stat(f, sourcePath) THEN <<>>
          ELSE IF file.Template
          THEN IF findTemplateFile(c, file, t) # NoTemplate
               THEN <<NewTemplateOperation(sourcePath)>>
               ELSE <<NewCopyOperation("", sourcePath)>>
          ELSE IF Stat(f, target)
          THEN <<[NewCopyOperation(IF IsDir(f[Deref(f, target)]) THEN "dir" ELSE "file", sourcePath)
                     EXCEPT !.from = target]>>
          ELSE <<>>
    IN prep \o <<linkOp>>

\* ------------------------------------------------------------------ state
VARIABLES
    fs,          \* the filesystem: path -> entry
    now,         \* the wall clock, in seconds
    operations,  \* Transaction.operations: the operations, in insertion order
    executed,    \* Transaction.executed: indices into operations
    pc,          \* "idle", or where Execute / rollback stands
    i,           \* Execute's loop index (1-based position in operations)
    j,           \* rollback's loop index (1-based position in executed)
    failure,     \* the failed operation Execute is rolling back for
    rbErrs,      \* rollback's MultiError: the positions whose Rollback failed
    caller,      \* who entered rollback: "execute" or "manual"
    ret,         \* what the call that returned last returned
    lastCall,    \* history: the call that returned last ("none" while one runs)
    fs0,         \* history: the filesystem when Execute started
    execLog,     \* history: every operation Execute call, with its error
    rbLog,       \* history: every operation Rollback call a transaction made
    execCount,   \* history: how many times Transaction.Execute was called
    config,      \* the manifest: the Config the program holds
    templates,   \* the template files: path -> "ok" or "syntax" (does not parse)
    entry,       \* the link entry point that is running, "none", or "returned"
    fileIdx,     \* atomicLinkAllConfigs' position in config.Files
    allResults,  \* atomicLinkAllConfigs' allResults
    result,      \* what the manifest or link call that returned last returned
    entryFs,     \* history: the filesystem when the link entry point was called
    disk,        \* the files of the config directory: name -> content
    savePc,      \* where saveConfigSafe stands, "idle" or "crashed"
    saveData,    \* saveConfigSafe's data: the marshalled document
    entryDoc     \* history: the manifest file when saveConfigSafe was called

\* the variables of the transaction engine
txVars == <<fs, now, operations, executed, pc, i, j, failure, rbErrs, caller,
            ret, lastCall, fs0, execLog, rbLog, execCount>>

\* the variables of the manifest and of the link entry points
cfgVars == <<config, templates, entry, fileIdx, allResults, result, entryFs>>

\* the variables of saveConfigSafe
saveVars == <<disk, savePc, saveData, entryDoc>>

vars == <<fs, now, operations, executed, pc, i, j, failure, rbErrs, caller,
          ret, lastCall, fs0, execLog, rbLog, execCount,
          config, templates, entry, fileIdx, allResults, result, entryFs,
          disk, savePc, saveData, entryDoc>>

\* ------------------------------------------------------- return values
NoFailure == [index |-> -1, cause |-> ""]

NoResult == [ret |-> "none", index |-> -1, cause |-> "", rollbackErrs |-> <<>>, changed |-> FALSE]

\* "return nil"
Nil == [ret |-> "nil", index |-> -1, cause |-> "", rollbackErrs |-> <<>>, changed |-> FALSE]

\* mutant of ExecuteError: a failure whose rollback succeeded is not reported
ExecuteErrorSwallowed(index, cause, errs) ==
    IF errs = <<>> THEN Nil
    ELSE [ret |-> "error", index |-> index, cause |-> cause, rollbackErrs |-> errs, changed |-> FALSE]

\* Execute's returned MultiError: "operation <index> failed: <cause>", with
\* "; rollback also failed: <rollbackErr>" when rollback returned an error
\* and "(rolled back successfully)" when it did not
ExecuteError(index, cause, errs) ==
    [ret |-> "error", index |-> index, cause |-> cause, rollbackErrs |-> errs, changed |-> FALSE]

\* rollback's return value: nil, or its MultiError naming the positions in
\* executed whose Rollback failed
RollbackResult(errs) ==
    IF errs = <<>> THEN Nil
    ELSE [ret |-> "error", index |-> -1, cause |-> "", rollbackErrs |-> errs, changed |-> FALSE]

\* an operation's Rollback called directly: its error, and (history) whether
\* the call changed the filesystem
DirectResult(r, f) ==
    [ret |-> IF HasErrors(r.errs) THEN "error" ELSE "nil", index |-> -1, cause |-> "",
     rollbackErrs |-> <<>>, changed |-> (r.fs # f)]

\* ---------------------------------------------------------- Transaction
\* mutant of ExecuteFailed: the operation's error is ignored
ExecuteFailedIgnored(err) == FALSE

\* mutant of ExecuteFailed: only a failed backup stops the transaction
ExecuteFailedOnBackupOnly(err) == err = "backup existing file"

\* "if err := op.Execute(); err != nil"
ExecuteFailed(err) == err # ""

\* mutant of RollbackStart: rollback walks nothing
RollbackStartNone(ex) == 0

\* "for i := len(t.executed) - 1; i >= 0; i--": where rollback starts ...
RollbackStart(ex) == Len(ex)

\* mutant of RollbackNext: the first failed Rollback ends the loop
RollbackNextStopsOnError(pos, failed) == IF failed THEN 0 ELSE pos - 1

\* ... and where it goes after the Rollback at position pos, failed or not
RollbackNext(pos, failed) == pos - 1

\* has operations[k].Execute ever been called
EverExecuted(k) == \E n \in 1..Len(execLog) : execLog[n].idx = k

Min(a, b) == IF a < b THEN a ELSE b

MkEntry(e, p) == IF e = "none" THEN Absent ELSE Entry(e, p)

\* the filesystems the program may find: at a target nothing, a file or a
\* directory of the user's; beside it possibly a backup of an earlier run
\* made in the second the clock stands at
InitFs ==
    {[p \in Paths |->
        IF p[2] = NoStamp THEN MkEntry(tk[p[1]], p)
        ELSE IF p[2] = 0 THEN MkEntry(bk[p[1]], p)
        ELSE Absent] :
     tk \in [Targets -> {"none", "userFile", "userDir"}],
     bk \in [Targets -> {"none", "oldBackup"}]}

\* no manifest or link call has returned yet
NoCall == [call |-> "none", err |-> "", failed |-> <<>>]

NoTemplates == [p \in {} |-> ""]

\* no manifest is loaded and no link entry point runs
CfgIdle ==
    /\ config = EmptyConfig
    /\ templates = NoTemplates
    /\ entry = "none"
    /\ fileIdx = 0
    /\ allResults = <<>>
    /\ result = NoCall
    /\ entryFs = fs

\* the name of the manifest file in config.ConfigDir, of the temporary file
\* saveConfigSafe writes and of the backup it makes
configFile == "config.json"

\* the document written in place, with no temporary file
tempFileInPlace == configFile

tempFile == "config.json.tmp"

backupFile == "config.json.backup"

ConfigDirFiles == {configFile, tempFile, backupFile}

\* no file of that name
NoFile == [state |-> "absent", doc |-> <<>>]

\* no manifest is saved and saveConfigSafe does not run
SaveIdle ==
    /\ disk = [f \in ConfigDirFiles |-> NoFile]
    /\ savePc = "idle"
    /\ saveData = <<>>
    /\ entryDoc = NoFile

\* NewTransaction
Init ==
    /\ fs \in InitFs
    /\ now = 0
    /\ operations = <<>>
    /\ executed = <<>>
    /\ pc = "idle"
    /\ i = 0
    /\ j = 0
    /\ failure = NoFailure
    /\ rbErrs = <<>>
    /\ caller = "none"
    /\ ret = NoResult
    /\ lastCall = "none"
    /\ fs0 = fs
    /\ execLog = <<>>
    /\ rbLog = <<>>
    /\ execCount = 0
    /\ CfgIdle
    /\ SaveIdle

\* a call returns v: its locals are gone
Return(call, v) ==
    /\ pc' = "idle"
    /\ i' = 0
    /\ j' = 0
    /\ failure' = NoFailure
    /\ rbErrs' = <<>>
    /\ caller' = "none"
    /\ ret' = v
    /\ lastCall' = call

\* Transaction.AddOperation: appends, whatever the transaction went through
AddOperation(op) ==
    /\ pc = "idle"
    /\ Len(operations) < MaxOps
    /\ operations' = Append(operations, op)
    /\ Return("add", NoResult)
    /\ UNCHANGED <<fs, now, executed, fs0, execLog, rbLog, execCount>>

\* Transaction.Execute is called: the loop starts, or returns nil at once
\* when there is no operation
TxExecuteWithin(maxExecs) ==
    /\ pc = "idle"
    /\ execCount < maxExecs
    /\ execCount' = execCount + 1
    /\ fs0' = fs
    /\ IF Len(operations) = 0
       THEN Return("execute", Nil)
       ELSE /\ pc' = "executing"
            /\ i' = 1
            /\ ret' = NoResult
            /\ lastCall' = "none"
            /\ UNCHANGED <<j, failure, rbErrs, caller>>
    /\ UNCHANGED <<fs, now, operations, executed, execLog, rbLog>>

TxExecute == TxExecuteWithin(MaxExecs)

\* one iteration of Execute's loop: operations[i].Execute() at clock time t,
\* failing at the system call `fault` if it reaches it
TxExecuteOp(t, fault) ==
    /\ pc = "executing"
    /\ i <= Len(operations)
    /\ LET r == OpExecute(operations[i], fs, t, fault)
       IN /\ fs' = r.fs
          /\ now' = t
          /\ operations' = [operations EXCEPT ![i] = r.op]
          /\ execLog' = Append(execLog, [idx |-> i, err |-> r.err])
          /\ IF ExecuteFailed(r.err)
             THEN \* t.rollback(), then return the MultiError
                  IF RollbackStart(executed) = 0
                  THEN /\ executed' = <<>>
                       /\ Return("execute", ExecuteError(i - 1, r.err, <<>>))
                  ELSE /\ pc' = "rollback"
                       /\ caller' = "execute"
                       /\ failure' = [index |-> i - 1, cause |-> r.err]
                       /\ j' = RollbackStart(executed)
                       /\ rbErrs' = <<>>
                       /\ UNCHANGED <<i, executed, ret, lastCall>>
             ELSE /\ executed' = Append(executed, i)
                  /\ IF i = Len(operations)
                     THEN Return("execute", Nil)
                     ELSE /\ i' = i + 1
                          /\ UNCHANGED <<pc, j, failure, rbErrs, caller, ret, lastCall>>
    /\ UNCHANGED <<fs0, rbLog, execCount>>

\* one iteration of rollback's loop: t.executed[j].Rollback(); after the
\* last one executed is cleared and rollback returns to its caller
TxRollbackOp(rmFail, mvFail) ==
    /\ pc = "rollback"
    /\ j >= 1
    /\ LET k == executed[j]
           r == OpRollback(operations[k], fs, rmFail, mvFail)
           errs == IF HasErrors(r.errs) THEN Append(rbErrs, j - 1) ELSE rbErrs
           nj == RollbackNext(j, HasErrors(r.errs))
       IN /\ fs' = r.fs
          /\ rbLog' = Append(rbLog, [idx |-> k, failed |-> HasErrors(r.errs), errs |-> r.errs])
          /\ IF nj = 0
             THEN /\ executed' = <<>>
                  /\ IF caller = "execute"
                     THEN Return("execute", ExecuteError(failure.index, failure.cause, errs))
                     ELSE Return("rollback", RollbackResult(errs))
             ELSE /\ j' = nj
                  /\ rbErrs' = errs
                  /\ UNCHANGED <<executed, pc, i, failure, caller, ret, lastCall>>
    /\ UNCHANGED <<now, operations, fs0, execLog, execCount>>

\* Transaction.Rollback, the exported entry to rollback
TxRollback ==
    /\ pc = "idle"
    /\ IF RollbackStart(executed) = 0
       THEN /\ executed' = <<>>
            /\ Return("rollback", RollbackResult(<<>>))
       ELSE /\ pc' = "rollback"
            /\ caller' = "manual"
            /\ j' = RollbackStart(executed)
            /\ rbErrs' = <<>>
            /\ ret' = NoResult
            /\ lastCall' = "none"
            /\ UNCHANGED <<executed, i, failure>>
    /\ UNCHANGED <<fs, now, operations, fs0, execLog, rbLog, execCount>>

\* Rollback called directly on an operation whose Execute was never called
OpRollbackDirect(k, rmFail, mvFail) ==
    /\ pc = "idle"
    /\ k \in 1..Len(operations)
    /\ ~EverExecuted(k)
    /\ LET r == OpRollback(operations[k], fs, rmFail, mvFail)
       IN /\ fs' = r.fs
          /\ Return("direct", DirectResult(r, fs))
    /\ UNCHANGED <<now, operations, executed, fs0, execLog, rbLog, execCount>>

Next ==
    \/ \E op \in NewOps : AddOperation(op) /\ UNCHANGED <<cfgVars, saveVars>>
    \/ TxExecute /\ UNCHANGED <<cfgVars, saveVars>>
    \/ \E t \in now..Min(now + 1, MaxTime), fault \in Faults :
          TxExecuteOp(t, fault) /\ UNCHANGED <<cfgVars, saveVars>>
    \/ \E rmFail \in BOOLEAN, mvFail \in BOOLEAN :
          TxRollbackOp(rmFail, mvFail) /\ UNCHANGED <<cfgVars, saveVars>>
    \/ TxRollback /\ UNCHANGED <<cfgVars, saveVars>>
    \/ \E k \in 1..MaxOps, rmFail \in BOOLEAN, mvFail \in BOOLEAN :
          OpRollbackDirect(k, rmFail, mvFail) /\ UNCHANGED <<cfgVars, saveVars>>

Spec == Init /\ [][Next]_vars

TypeOK ==
    /\ pc \in {"idle", "executing", "rollback"}
    /\ now \in Stamps
    /\ Len(operations) <= MaxOps
    /\ execCount <= MaxExecs

\* ------------------------------------------------------ link entry points
\* NewTransaction holding the planned operations
NewTransaction(ops) ==
    /\ operations' = ops
    /\ executed' = <<>>
    /\ execLog' = <<>>
    /\ rbLog' = <<>>
    /\ execCount' = 0
    /\ lastCall' = "createAtomicLinkOperation"
    /\ ret' = NoResult
    /\ UNCHANGED <<fs, now, pc, i, j, failure, rbErrs, caller, fs0>>

\* a link entry point returns
LinkReturn(call, err, failed) ==
    /\ entry' = "returned"
    /\ result' = [call |-> call, err |-> err, failed |-> failed]

\* linkConfigFileAtomic(config, &config.Files[k]) is called: Validate, then
\* atomicLinkSingleConfig plans the transaction of the file (its MkdirAll of
\* the source directory may fail)
linkConfigFileAtomic(k, mkdirFails) ==
    /\ entry = "none"
    /\ k \in 1..Len(config.Files)
    /\ entryFs' = fs
    /\ fileIdx' = k
    /\ UNCHANGED <<config, templates, allResults>>
    /\ UNCHANGED saveVars
    /\ IF ValidationFailed(Validate(config, templates))
       THEN LinkReturn("linkConfigFileAtomic", "config validation", <<>>) /\ UNCHANGED txVars
       ELSE IF mkdirFails
       THEN LinkReturn("linkConfigFileAtomic", "create transaction", <<>>) /\ UNCHANGED txVars
       ELSE /\ NewTransaction(createAtomicLinkOperation(config, config.Files[k], fs, templates))
            /\ entry' = "linkConfigFileAtomic"
            /\ UNCHANGED result

\* atomicLinkSingleConfig's tx.Execute() has returned, and linkConfigFileAtomic
\* returns its error
linkConfigFileAtomicReturn ==
    /\ entry = "linkConfigFileAtomic"
    /\ pc = "idle"
    /\ lastCall = "execute"
    /\ LinkReturn("linkConfigFileAtomic",
                  IF ret.ret = "nil" THEN "" ELSE "transaction failed", <<>>)
    /\ UNCHANGED <<config, templates, fileIdx, allResults, entryFs>>
    /\ UNCHANGED <<txVars, saveVars>>

\* applyAllConfigs(config) is called: Validate, then atomicLinkAllConfigs
applyAllConfigs ==
    /\ entry = "none"
    /\ entryFs' = fs
    /\ fileIdx' = 0
    /\ allResults' = <<>>
    /\ UNCHANGED <<config, templates>>
    /\ UNCHANGED <<txVars, saveVars>>
    /\ IF ValidationFailed(Validate(config, templates))
       THEN LinkReturn("applyAllConfigs", "config validation", <<>>)
       ELSE entry' = "applyAllConfigs" /\ UNCHANGED result

\* mutant of LoopDone: the loop leaves out the last file
LoopDoneEarly(idx, results, files) == idx >= Len(files) - 1

\* mutant of LoopDone: the first failed file ends the loop
LoopDoneOnFailure(idx, results, files) ==
    idx >= Len(files) \/ \E n \in 1..Len(results) : ~results[n].Success

\* "for _, file := range config.Files" is over; a failed file only continues
LoopDone(idx, results, files) == idx >= Len(files)

\* the loop of atomicLinkAllConfigs is between two files
BetweenFiles ==
    /\ entry = "applyAllConfigs"
    /\ pc = "idle"
    /\ Len(allResults) = fileIdx

\* the next file of atomicLinkAllConfigs' loop: its transaction is planned,
\* or the failure to plan it is recorded and the loop continues
atomicLinkAllConfigsNext(mkdirFails) ==
    /\ BetweenFiles
    /\ ~LoopDone(fileIdx, allResults, config.Files)
    /\ fileIdx' = fileIdx + 1
    /\ UNCHANGED <<config, templates, entry, result, entryFs>>
    /\ UNCHANGED saveVars
    /\ IF mkdirFails
       THEN /\ allResults' = Append(allResults,
                                    [File |-> config.Files[fileIdx + 1].Name, Success |-> FALSE])
            /\ UNCHANGED txVars
       ELSE /\ NewTransaction(createAtomicLinkOperation(config, config.Files[fileIdx + 1], fs, templates))
            /\ UNCHANGED allResults

\* tx.Execute() of the file's transaction has returned: the result is recorded
atomicLinkAllConfigsRecord ==
    /\ entry = "applyAllConfigs"
    /\ pc = "idle"
    /\ lastCall = "execute"
    /\ Len(allResults) < fileIdx
    /\ allResults' = Append(allResults,
                            [File |-> config.Files[fileIdx].Name, Success |-> (ret.ret = "nil")])
    /\ UNCHANGED <<config, templates, entry, fileIdx, result, entryFs>>
    /\ UNCHANGED <<txVars, saveVars>>

\* the names of the failed files, in the order of the results
FailedFiles(results) ==
    LET F[m \in 0..Len(results)] ==
          IF m = 0 THEN <<>>
          ELSE IF results[m].Success THEN F[m - 1] ELSE Append(F[m - 1], results[m].File)
    IN F[Len(results)]

\* the loop is over: atomicLinkAllConfigs returns nil, or the MultiError that
\* lists the failed files, and applyAllConfigs returns that
atomicLinkAllConfigsReturn ==
    /\ BetweenFiles
    /\ LoopDone(fileIdx, allResults, config.Files)
    /\ LinkReturn("applyAllConfigs",
                  IF FailedFiles(allResults) = <<>> THEN "" ELSE "atomic link all configs",
                  FailedFiles(allResults))
    /\ UNCHANGED <<config, templates, fileIdx, allResults, entryFs>>
    /\ UNCHANGED <<txVars, saveVars>>

\* the two tracked files of the linked manifests: "a" with source "f" and
\* target 1, "b" with source "g" and target 2
LinkFile(n, source, target, template) ==
    ConfigFile(IF n = 1 THEN <<"a">> ELSE <<"b">>, source, target, <<>>, template)

\* file n as it is tracked when valid, or with a source that leaves the
\* dotfiles directory, or with the target of file 1
LinkFiles(n) ==
    {LinkFile(n, source, target, template) :
        source \in {FileSourceList[n + 1], FileSourceList[4]},
        target \in {n, 1},
        template \in BOOLEAN}

\* the manifests linking starts from: one or two files, valid or not
LinkConfigs ==
    {[EmptyConfig EXCEPT !.Files = files, !.Categories = <<<<"c">>>>,
                         !.TemplateExts = <<<<".", "t">>>>, !.Editor = editor] :
        files \in {<<f1>> : f1 \in LinkFiles(1)}
                  \cup {<<f1, f2>> : f1 \in LinkFiles(1), f2 \in LinkFiles(2)},
        editor \in {"vim", ""}}

\* the template file <templates>/<name>.t
TemplateOf(name) == Join(TemplatesDir, << name \o <<".", "t">> >>)

\* the template directories linking may find: for each of the two files a
\* template that parses, one that does not, or none
TemplateDirs ==
    {[p \in {TemplateOf(<<"a">>) : x \in {1} \ {IF a = "none" THEN 1 ELSE 0}}
            \cup {TemplateOf(<<"b">>) : x \in {1} \ {IF b = "none" THEN 1 ELSE 0}} |->
        IF p = TemplateOf(<<"a">>) THEN a ELSE b] :
     a \in {"none", "ok", "syntax"}, b \in {"none", "ok"}}

\* the filesystems linking may find for manifest c: at the target of a file
\* nothing, the user's file or directory, or the symlink to the file's
\* source; at its source nothing or the file kept in the repository
LinkInitFs(c) ==
    {[p \in LinkPaths |->
        IF p[2] # NoStamp THEN Absent
        ELSE IF \E n \in 1..Len(c.Files) : p = TargetPath(c.Files[n].Target)
        THEN IF tk[p[1]] = "symlink"
             THEN Entry("symlink", SourcePath(c.Files[CHOOSE n \in 1..Len(c.Files) :
                                                     p = TargetPath(c.Files[n].Target)].Source))
             ELSE MkEntry(tk[p[1]], p)
        ELSE IF p[1] \in DOMAIN sk /\ \E n \in 1..Len(c.Files) : p = SourcePath(c.Files[n].Source)
        THEN MkEntry(sk[p[1]], p)
        ELSE Absent] :
     tk \in [1..NumFileTargets -> {"none", "userFile", "userDir", "symlink"}],
     sk \in [{SourcePath(FileSourceList[n])[1] : n \in 2..3} -> {"none", "userFile"}]}

LinkInit ==
    /\ config \in LinkConfigs
    /\ templates \in TemplateDirs
    /\ fs \in LinkInitFs(config)
    /\ now = 0
    /\ operations = <<>>
    /\ executed = <<>>
    /\ pc = "idle"
    /\ i = 0
    /\ j = 0
    /\ failure = NoFailure
    /\ rbErrs = <<>>
    /\ caller = "none"
    /\ ret = NoResult
    /\ lastCall = "none"
    /\ fs0 = fs
    /\ execLog = <<>>
    /\ rbLog = <<>>
    /\ execCount = 0
    /\ entry = "none"
    /\ fileIdx = 0
    /\ allResults = <<>>
    /\ result = NoCall
    /\ entryFs = fs
    /\ SaveIdle

LinkNext ==
    \/ \E k \in 1..MaxFiles, mkdirFails \in BOOLEAN : linkConfigFileAtomic(k, mkdirFails)
    \/ linkConfigFileAtomicReturn
    \/ applyAllConfigs
    \/ \E mkdirFails \in BOOLEAN : atomicLinkAllConfigsNext(mkdirFails)
    \/ atomicLinkAllConfigsRecord
    \/ atomicLinkAllConfigsReturn
    \/ lastCall = "createAtomicLinkOperation" /\ TxExecute /\ UNCHANGED <<cfgVars, saveVars>>
    \/ \E t \in now..Min(now + 1, MaxTime), fault \in Faults :
          TxExecuteOp(t, fault) /\ UNCHANGED <<cfgVars, saveVars>>
    \/ \E rmFail \in BOOLEAN, mvFail \in BOOLEAN :
          TxRollbackOp(rmFail, mvFail) /\ UNCHANGED <<cfgVars, saveVars>>

LinkSpec == LinkInit /\ [][LinkNext]_vars

\* the batch by itself: a valid manifest of two files that are no templates
BatchInit ==
    /\ LinkInit
    /\ Len(config.Files) = 2
    /\ \A n \in 1..2 : ~config.Files[n].Template
    /\ templates = NoTemplates
    /\ ~ValidationFailed(Validate(config, templates))

BatchNext ==
    \/ applyAllConfigs
    \/ \E mkdirFails \in BOOLEAN : atomicLinkAllConfigsNext(mkdirFails)
    \/ atomicLinkAllConfigsRecord
    \/ atomicLinkAllConfigsReturn
    \/ lastCall = "createAtomicLinkOperation" /\ TxExecute /\ UNCHANGED <<cfgVars, saveVars>>
    \/ \E t \in now..Min(now + 1, MaxTime), fault \in Faults :
          TxExecuteOp(t, fault) /\ UNCHANGED <<cfgVars, saveVars>>
    \/ \E rmFail \in BOOLEAN, mvFail \in BOOLEAN :
          TxRollbackOp(rmFail, mvFail) /\ UNCHANGED <<cfgVars, saveVars>>

\* the batch runs to its end: nothing in it waits or blocks
BatchFairSpec == BatchInit /\ [][BatchNext]_vars /\ WF_vars(BatchNext)

\* ------------------------------------------------------- manifest calls
\* a manifest call returns: the manifest is r.config, the error r.err
ManifestReturn(call, r) ==
    /\ config' = r.config
    /\ result' = [call |-> call, err |-> r.err, failed |-> <<>>]
    /\ UNCHANGED <<templates, entry, fileIdx, allResults, entryFs>>
    /\ UNCHANGED <<txVars, saveVars>>

\* the files a caller may hand to AddConfigFile: "a" with the source "f",
\* "../o" or "../dx/f", "b" with the source "g", a file without a name and
\* one without a target
FileInputs ==
    {ConfigFile(<<"a">>, source, target, category, FALSE) :
        source \in {FileSourceList[n] : n \in {2, 4, 5}},
        target \in FileTargets \ {0}, category \in FileCategories}
    \cup {ConfigFile(<<"b">>, FileSourceList[3], target, category, FALSE) :
        target \in FileTargets \ {0}, category \in FileCategories}
    \cup {ConfigFile(<<>>, FileSourceList[2], 1, <<>>, FALSE),
          ConfigFile(<<"a">>, FileSourceList[2], 0, <<>>, FALSE)}

DoAddConfigFile(file) ==
    /\ Len(config.Files) <= MaxFiles
    /\ ManifestReturn("AddConfigFile", AddConfigFile(config, file, fs))

DoRemoveConfigFile(targetPath) ==
    ManifestReturn("RemoveConfigFile", RemoveConfigFile(config, targetPath))

DoAddCategory(category, mkdirFails) ==
    ManifestReturn("AddCategory", AddCategory(config, category, mkdirFails))

DoRemoveCategory(category) ==
    ManifestReturn("RemoveCategory", RemoveCategory(config, category))

\* the files of an exported manifest: "a" at target 1, "b" at target 1 in a
\* category, "b" at target 2 in another
ImportA1 == ConfigFile(<<"a">>, FileSourceList[2], 1, <<>>, FALSE)

ImportB1 == ConfigFile(<<"b">>, FileSourceList[3], 1, <<"u">>, FALSE)

ImportB2 == ConfigFile(<<"b">>, FileSourceList[3], 2, <<"c">>, FALSE)

\* the manifests the imported JSON may decode to
ImportedConfigs ==
    {[Files |-> files, Categories |-> cv[1], Variables |-> cv[2],
      TemplateExts |-> <<<<".", "t">>>>, Editor |-> "vim", Shell |-> "zsh"] :
        files \in {<<>>, <<ImportA1>>, <<ImportA1, ImportB1>>, <<ImportB1, ImportB2>>,
                   <<ImportA1, ImportB2>>},
        cv \in {<<<<>>, NoVariables>>, <<<<<<"c">>>>, [k \in {"email"} |-> "x"]>>}}

\* ImportConfig of data that decodes to `imported`
DoImportConfig(imported, mergeMode) ==
    ManifestReturn("ImportConfig",
                   [config |-> ImportConfig(config, imported, mergeMode, fs), err |-> ""])

\* ImportConfig of data that is not JSON
DoImportInvalid ==
    ManifestReturn("ImportConfig", [config |-> config, err |-> "invalid JSON"])

DoUpdateFileStatuses ==
    ManifestReturn("updateFileStatuses", [config |-> updateFileStatuses(config, fs), err |-> ""])

\* the filesystems a manifest is edited over: at target 1 the user's file,
\* or the symlink to the source "f"
ManifestInitFs ==
    {[p \in LinkPaths |-> IF p = TargetPath(1) THEN x ELSE Absent] :
        x \in {Entry("userFile", TargetPath(1)),
               Entry("symlink", SourcePath(FileSourceList[2]))}}

\* the empty manifest
ManifestInit ==
    /\ fs \in ManifestInitFs
    /\ now = 0
    /\ operations = <<>>
    /\ executed = <<>>
    /\ pc = "idle"
    /\ i = 0
    /\ j = 0
    /\ failure = NoFailure
    /\ rbErrs = <<>>
    /\ caller = "none"
    /\ ret = NoResult
    /\ lastCall = "none"
    /\ fs0 = fs
    /\ execLog = <<>>
    /\ rbLog = <<>>
    /\ execCount = 0
    /\ CfgIdle
    /\ SaveIdle

\* the calls that edit files and categories
EditNext ==
    \/ \E file \in FileInputs : DoAddConfigFile(file)
    \/ \E targetPath \in FileTargets : DoRemoveConfigFile(targetPath)
    \/ \E category \in FileCategories, mkdirFails \in BOOLEAN : DoAddCategory(category, mkdirFails)
    \/ \E category \in FileCategories : DoRemoveCategory(category)

\* a manifest edited by AddConfigFile, RemoveConfigFile, AddCategory and
\* RemoveCategory only
EditSpec == ManifestInit /\ [][EditNext]_vars

ManifestNext ==
    \/ \E file \in FileInputs : DoAddConfigFile(file)
    \/ \E targetPath \in FileTargets : DoRemoveConfigFile(targetPath)
    \/ \E category \in FileCategories, mkdirFails \in BOOLEAN : DoAddCategory(category, mkdirFails)
    \/ \E category \in FileCategories : DoRemoveCategory(category)
    \/ \E imported \in ImportedConfigs, mergeMode \in BOOLEAN : DoImportConfig(imported, mergeMode)
    \/ DoImportInvalid
    \/ DoUpdateFileStatuses

\* a manifest edited and imported into
ManifestSpec == ManifestInit /\ [][ManifestNext]_vars

\* ------------------------------------------- the statuses after linking
\* after a link entry point has returned (validation passed), the statuses
\* of the files are computed again
linkUpdateFileStatuses ==
    /\ entry = "returned"
    /\ result.call \in {"linkConfigFileAtomic", "applyAllConfigs"}
    /\ result.err # "config validation"
    /\ DoUpdateFileStatuses

StatusNext ==
    \/ LinkNext
    \/ linkUpdateFileStatuses

StatusSpec == LinkInit /\ [][StatusNext]_vars

\* ------------------------------------------------------- saveConfigSafe
\* a file holding the whole document, and a file cut short while written
FileOf(doc) == [state |-> "complete", doc |-> <<doc>>]

Truncated == [state |-> "partial", doc |-> <<>>]

\* json.MarshalIndent(config): the fields tagged json:"-" (IsLinked,
\* HasConflict) are left out
Marshal(c) ==
    [Files |-> [n \in 1..Len(c.Files) |->
                  [Name |-> c.Files[n].Name, Source |-> c.Files[n].Source,
                   Target |-> c.Files[n].Target, Category |-> c.Files[n].Category,
                   Template |-> c.Files[n].Template]],
     Categories |-> c.Categories, Variables |-> c.Variables,
     TemplateExts |-> c.TemplateExts, Editor |-> c.Editor, Shell |-> c.Shell]

\* saveConfigSafe returns err
SaveReturn(err) ==
    /\ savePc' = "idle"
    /\ saveData' = <<>>
    /\ result' = [call |-> "saveConfigSafe", err |-> err, failed |-> <<>>]

\* the directory after the file `name` was given the content
WriteFile(d, name, content) == [d EXCEPT ![name] = content]

\* saveConfigSafe is called: config.ValidateBeforeSave()
saveConfigSafe ==
    /\ savePc = "idle"
    /\ entryDoc' = disk[configFile]
    /\ IF ValidationFailed(Validate(config, templates))
       THEN SaveReturn("config validation")
       ELSE savePc' = "backup" /\ UNCHANGED <<saveData, result>>
    /\ UNCHANGED <<disk, config, templates, entry, fileIdx, allResults, entryFs>>
    /\ UNCHANGED txVars

\* the backup of the existing manifest: copyFile(configFile, backupFile),
\* whose failure is a warning only
saveBackup(copied) ==
    /\ savePc = "backup"
    /\ savePc' = "mkdir"
    /\ disk' = IF disk[configFile].state = "absent" THEN disk
               ELSE WriteFile(disk, backupFile, copied)
    /\ UNCHANGED <<saveData, entryDoc, cfgVars, txVars>>

\* os.MkdirAll(config.ConfigDir), then json.MarshalIndent
saveMarshal(mkdirFails) ==
    /\ savePc = "mkdir"
    /\ IF mkdirFails
       THEN SaveReturn("create config directory")
       ELSE /\ savePc' = "write"
            /\ saveData' = <<Marshal(config)>>
            /\ UNCHANGED result
    /\ UNCHANGED <<disk, entryDoc, config, templates, entry, fileIdx, allResults, entryFs>>
    /\ UNCHANGED txVars

\* os.WriteFile(tempFile, data) opens the file, truncating it
saveOpen(fails) ==
    /\ savePc = "write"
    /\ IF fails
       THEN SaveReturn("write temp config") /\ UNCHANGED disk
       ELSE /\ savePc' = "writing"
            /\ disk' = WriteFile(disk, tempFile, Truncated)
            /\ UNCHANGED <<saveData, result>>
    /\ UNCHANGED <<entryDoc, config, templates, entry, fileIdx, allResults, entryFs>>
    /\ UNCHANGED txVars

\* os.WriteFile(tempFile, data) writes the data
saveWrite(fails) ==
    /\ savePc = "writing"
    /\ IF fails
       THEN SaveReturn("write temp config") /\ UNCHANGED disk
       ELSE /\ savePc' = "rename"
            /\ disk' = WriteFile(disk, tempFile, FileOf(saveData[1]))
            /\ UNCHANGED <<saveData, result>>
    /\ UNCHANGED <<entryDoc, config, templates, entry, fileIdx, allResults, entryFs>>
    /\ UNCHANGED txVars

\* os.Rename(tempFile, configFile); a failure removes the temporary file
saveRename(fails) ==
    /\ savePc = "rename"
    /\ IF fails
       THEN /\ SaveReturn("replace config file")
            /\ disk' = [disk EXCEPT ![tempFile] = NoFile]
       ELSE /\ SaveReturn("")
            /\ disk' = [disk EXCEPT ![configFile] = disk[tempFile],
                                    ![tempFile] = NoFile]
    /\ UNCHANGED <<entryDoc, config, templates, entry, fileIdx, allResults, entryFs>>
    /\ UNCHANGED txVars

\* the process dies while saveConfigSafe runs
saveCrash ==
    /\ savePc \notin {"idle", "crashed"}
    /\ savePc' = "crashed"
    /\ UNCHANGED <<disk, saveData, entryDoc, cfgVars, txVars>>

\* createMinimalConfig: a manifest that passes validation
MinimalConfig ==
    [EmptyConfig EXCEPT !.Categories = << <<"c">> >>,
                        !.TemplateExts = << <<".", "t">> >>,
                        !.Editor = "vim", !.Shell = "bash"]

SaveInit ==
    /\ fs \in ManifestInitFs
    /\ now = 0
    /\ operations = <<>>
    /\ executed = <<>>
    /\ pc = "idle"
    /\ i = 0
    /\ j = 0
    /\ failure = NoFailure
    /\ rbErrs = <<>>
    /\ caller = "none"
    /\ ret = NoResult
    /\ lastCall = "none"
    /\ fs0 = fs
    /\ execLog = <<>>
    /\ rbLog = <<>>
    /\ execCount = 0
    /\ config = MinimalConfig
    /\ templates = NoTemplates
    /\ entry = "none"
    /\ fileIdx = 0
    /\ allResults = <<>>
    /\ result = NoCall
    /\ entryFs = fs
    /\ SaveIdle

\* the files added between saves: "a" with a source in the dotfiles
\* directory or outside it (which validation refuses), and "b"
SaveFileInputs ==
    {ConfigFile(<<"a">>, FileSourceList[2], 1, <<>>, FALSE),
     ConfigFile(<<"a">>, FileSourceList[4], 1, <<>>, FALSE),
     ConfigFile(<<"b">>, FileSourceList[3], 2, <<"c">>, FALSE)}

\* the manifest is edited between saves
SaveNext ==
    \/ savePc = "idle" /\ \E file \in SaveFileInputs : DoAddConfigFile(file)
    \/ savePc = "idle" /\ \E targetPath \in FileTargets : DoRemoveConfigFile(targetPath)
    \/ saveConfigSafe
    \/ \E copied \in {disk[configFile], disk[backupFile], Truncated} : saveBackup(copied)
    \/ \E mkdirFails \in BOOLEAN : saveMarshal(mkdirFails)
    \/ \E fails \in BOOLEAN : saveOpen(fails)
    \/ \E fails \in BOOLEAN : saveWrite(fails)
    \/ \E fails \in BOOLEAN : saveRename(fails)
    \/ saveCrash

SaveSpec == SaveInit /\ [][SaveNext]_vars

\* ------------------------------------------- the plan builder by itself
\* the file the plans are built for: ".a", in a category or in none, a
\* template or not
PlanConfigs ==
    {[EmptyConfig EXCEPT
        !.Files = <<ConfigFile(<<".", "a">>, FileSourceList[2], 1, category, template)>>,
        !.Categories = << <<"c">> >>,
        !.TemplateExts = << <<".", "t">>, <<".", "u">> >>,
        !.Editor = "vim"] :
     category \in {<<>>, <<"c">>}, template \in BOOLEAN}

\* every path a lookup may try for the file ".a" of category "c"
PlanCandidates ==
    LET cands == Candidates4(<< <<".", "t">>, <<".", "u">> >>, <<".", "a">>, <<"c">>)
    IN {cands[n] : n \in 1..Len(cands)}

\* the template directories: up to two of those paths hold a template
PlanTemplateDirs ==
    {[p \in ps |-> "ok"] : ps \in {x \in SUBSET PlanCandidates : Cardinality(x) <= 2}}

\* the path of another file of the repository, which a symlink may lead to
OtherPath == SourcePath(FileSourceList[3])

\* the filesystems a plan is built over: the source is there or not; the
\* target is missing, the user's file or directory, or a symlink to the
\* source or to the other file; the other file is there or not
PlanInitFs ==
    {[p \in LinkPaths |->
        IF p = TargetPath(1) THEN tk
        ELSE IF p = SourcePath(FileSourceList[2]) THEN sk
        ELSE IF p = OtherPath THEN ok
        ELSE Absent] :
     tk \in {Absent, Entry("userFile", TargetPath(1)), Entry("userDir", TargetPath(1)),
             Entry("symlink", SourcePath(FileSourceList[2])), Entry("symlink", OtherPath)},
     sk \in {Absent, Entry("userFile", SourcePath(FileSourceList[2]))},
     ok \in {Absent, Entry("userFile", OtherPath)}}

PlanInit ==
    /\ config \in PlanConfigs
    /\ templates \in PlanTemplateDirs
    /\ fs \in PlanInitFs
    /\ now = 0
    /\ operations = <<>>
    /\ executed = <<>>
    /\ pc = "idle"
    /\ i = 0
    /\ j = 0
    /\ failure = NoFailure
    /\ rbErrs = <<>>
    /\ caller = "none"
    /\ ret = NoResult
    /\ lastCall = "none"
    /\ fs0 = fs
    /\ execLog = <<>>
    /\ rbLog = <<>>
    /\ execCount = 0
    /\ entry = "none"
    /\ fileIdx = 0
    /\ allResults = <<>>
    /\ result = NoCall
    /\ entryFs = fs
    /\ SaveIdle

\* config.Validate() is called
planValidate ==
    /\ result.call = "none"
    /\ result' = [call |-> "Validate",
                  err |-> IF ValidationFailed(Validate(config, templates))
                          THEN "config validation" ELSE "",
                  failed |-> <<>>]
    /\ UNCHANGED <<config, templates, entry, fileIdx, allResults, entryFs>>
    /\ UNCHANGED <<txVars, saveVars>>

\* createAtomicLinkOperation(config, &config.Files[k]) is called
planCreate(k, mkdirFails) ==
    /\ entry = "none"
    /\ k \in 1..Len(config.Files)
    /\ fileIdx' = k
    /\ IF mkdirFails
       THEN /\ entry' = "returned"
            /\ UNCHANGED txVars
       ELSE /\ NewTransaction(createAtomicLinkOperation(config, config.Files[k], fs, templates))
            /\ entry' = "createAtomicLinkOperation"
    /\ UNCHANGED <<config, templates, allResults, result, entryFs>>
    /\ UNCHANGED saveVars

PlanNext ==
    \/ planValidate
    \/ \E k \in 1..MaxFiles, mkdirFails \in BOOLEAN : planCreate(k, mkdirFails)

PlanSpec == PlanInit /\ [][PlanNext]_vars

\* ------------------------------------------- a transaction used again
\* how many times Execute is called on the one transaction
MaxReuse == 2

\* the transactions that are executed again: one or two operations
ReusePlans ==
    {<<op>> : op \in NewOps}
    \cup {<<op1, op2>> : op1 \in NewOps, op2 \in NewOps}

ReuseInit ==
    /\ fs \in InitFs
    /\ now = 0
    /\ operations \in ReusePlans
    /\ executed = <<>>
    /\ pc = "idle"
    /\ i = 0
    /\ j = 0
    /\ failure = NoFailure
    /\ rbErrs = <<>>
    /\ caller = "none"
    /\ ret = NoResult
    /\ lastCall = "none"
    /\ fs0 = fs
    /\ execLog = <<>>
    /\ rbLog = <<>>
    /\ execCount = 0
    /\ CfgIdle
    /\ SaveIdle

\* Execute and Rollback are called on the transaction in any order
ReuseNext ==
    \/ TxExecuteWithin(MaxReuse) /\ UNCHANGED <<cfgVars, saveVars>>
    \/ \E t \in now..Min(now + 1, MaxTime), fault \in Faults :
          TxExecuteOp(t, fault) /\ UNCHANGED <<cfgVars, saveVars>>
    \/ \E rmFail \in BOOLEAN, mvFail \in BOOLEAN :
          TxRollbackOp(rmFail, mvFail) /\ UNCHANGED <<cfgVars, saveVars>>
    \/ TxRollback /\ UNCHANGED <<cfgVars, saveVars>>

ReuseSpec == ReuseInit /\ [][ReuseNext]_vars

\* ---------------------------------------------------------------- claims
\* the first Execute of the transaction has just returned
FirstReturn == lastCall = "execute" /\ execCount = 1

AllSucceeded == \A n \in 1..Len(execLog) : execLog[n].err = ""

\* the first Execute has just returned and operation k was the first to fail
FailedAt(k) ==
    /\ FirstReturn
    /\ Len(execLog) = k
    /\ execLog[k].err # ""

OpIndices == 1..MaxOps

\* <<n, n-1, ..., 1>>
Descending(n) == [m \in 1..n |-> n + 1 - m]

RolledBack == [m \in 1..Len(rbLog) |-> rbLog[m].idx]

\* the 0-based positions whose Rollback failed, in the order they were called
FailedRollbacks ==
    LET F[m \in 0..Len(rbLog)] ==
          IF m = 0 THEN <<>>
          ELSE IF rbLog[m].failed THEN Append(F[m - 1], rbLog[m].idx - 1) ELSE F[m - 1]
    IN F[Len(rbLog)]

\* C1: when operation k is the first to fail and Execute returns with no
\* rollback error, every path that operations 1..k-1 worked on is in its
\* pre-Execute state.
C1_PriorEffectsUndone ==
    \A k \in OpIndices :
        (FailedAt(k) /\ ret.rollbackErrs = <<>>) =>
            \A n \in 1..(k - 1) :
                fs[operations[n].targetPath] = fs0[operations[n].targetPath]

\* C2: when operation k is the first to fail, by the time Execute returns
\* operations 1..k-1 have each had Rollback invoked exactly once, in the
\* order k-1, k-2, ..., 1, whether or not some of those rollbacks failed.
C2_RollbackReverseOrder ==
    \A k \in OpIndices : FailedAt(k) => RolledBack = Descending(k - 1)

\* C2 witness: the third operation failed, the rollback of the second one
\* returned an error, and the first one was still rolled back after it.
C2_Witness ==
    /\ FailedAt(3)
    /\ rbLog[1].failed
    /\ RolledBack = <<2, 1>>

\* C3: when the failing operation k had already renamed the existing entry
\* aside, then by the time Execute returns the entry is back at the target
\* and no backup is left behind.
C3_PartialEffectUndone ==
    \A k \in OpIndices :
        (FailedAt(k) /\ operations[k].backed) =>
            /\ ~Exists(fs, operations[k].backupPath)
            /\ Exists(fs, operations[k].targetPath)

\* C4: backup safety: after a failed Execute whose rollback reported no
\* error, every target path that existed before Execute holds exactly the
\* entry it held then.
C4_BackupSafety ==
    (FirstReturn /\ ret.ret = "error" /\ ret.rollbackErrs = <<>>) =>
        \A n \in 1..Len(operations) :
            Exists(fs0, operations[n].targetPath) =>
                fs[operations[n].targetPath] = fs0[operations[n].targetPath]

\* C5: no user data is ever deleted: every entry of the user's that was at a
\* target or at a backup path when Execute started still exists at some
\* target or backup path.
C5_NoUserDataLost ==
    \A p \in Paths :
        fs0[p].e \in UserEntries => \E q \in Paths : fs[q] = fs0[p]

\* C6: Execute runs the operations in insertion order and stops at the first
\* failure: the n-th operation call is on operation n, and every call but
\* the last one returned success.
C6_InOrderStopAtFirstFailure ==
    execCount = 1 =>
        \A n \in 1..Len(execLog) :
            /\ execLog[n].idx = n
            /\ n < Len(execLog) => execLog[n].err = ""

\* C6 witness: of three operations the second failed; Execute returned and
\* the third was never executed.
C6_Witness ==
    /\ FailedAt(2)
    /\ Len(operations) = 3
    /\ ~EverExecuted(3)

\* C7: Execute returns nil exactly when every operation was executed and
\* succeeded; otherwise it returns an error that names the failing operation
\* (by its zero-based position), carries that operation's error, and lists
\* the failed rollbacks exactly when some rollback failed.
C7_ErrorReporting ==
    FirstReturn =>
        /\ ret.ret \in {"nil", "error"}
        /\ ret.ret = "nil" <=> (Len(execLog) = Len(operations) /\ AllSucceeded)
        /\ ret.ret = "error" =>
              /\ ret.index = Len(execLog) - 1
              /\ ret.cause = execLog[Len(execLog)].err
              /\ ret.cause # ""
              /\ ret.rollbackErrs = FailedRollbacks

\* C7 witness: the third operation failed and a rollback failed too; both
\* are in the returned error.
C7_Witness ==
    /\ FailedAt(3)
    /\ ret.index = 2
    /\ ret.cause = "create symlink"
    /\ ret.rollbackErrs # <<>>

\* C8: once Execute has returned, AddOperation does not change the
\* transaction's operation list.
C8_AddOnlyWhileBuilding ==
    [][(execCount > 0 /\ pc = "idle") => Len(operations') = Len(operations)]_vars

\* the first Execute returned success, and was the only one
Committed ==
    /\ execCount = 1
    /\ pc # "executing"
    /\ Len(execLog) > 0
    /\ AllSucceeded

\* C9: once Execute has returned success, Transaction.Rollback invokes no
\* operation's Rollback.
C9_NoRollbackAfterCommit == Committed => rbLog = <<>>

\* C9 as amended: once the one Execute of a transaction has returned
\* success, a Transaction.Rollback that returns has invoked Rollback of every
\* executed operation exactly once, in reverse order, and has emptied the
\* executed list.
C9_RollbackAfterCommitUndoesAll ==
    (Committed /\ lastCall = "rollback") =>
        /\ RolledBack = Descending(Len(execLog))
        /\ executed = <<>>

\* C9 witness: a committed transaction that backed up the user's file was
\* rolled back by the caller, and the file is back at the target.
C9_Witness ==
    /\ Committed
    /\ lastCall = "rollback"
    /\ Len(rbLog) >= 2
    /\ ret.ret = "nil"
    /\ fs[TargetPath(1)] = Entry("userFile", TargetPath(1))
    /\ \E n \in 1..Len(operations) : operations[n].backed

\* C10: Rollback on an operation whose Execute was never called returns no
\* error and changes nothing in the filesystem.
C10_RollbackUnexecutedIsNoOp ==
    lastCall = "direct" => (ret.ret = "nil" /\ ~ret.changed)

\* C10 witness: such a Rollback returned while the user's directory was at
\* the operation's target.
C10_Witness ==
    /\ lastCall = "direct"
    /\ fs[TargetPath(1)].e = "userDir"
    /\ \E n \in 1..Len(operations) : operations[n].kind = "copy" /\ ~EverExecuted(n)

\* linkConfigFileAtomic has returned
SingleReturned == entry = "returned" /\ result.call = "linkConfigFileAtomic"

\* linkConfigFileAtomic has returned success
SingleLinked == SingleReturned /\ result.err = ""

\* the file linkConfigFileAtomic was called for, its target and its source
LinkedFile == config.Files[fileIdx]

LinkedTarget == TargetPath(LinkedFile.Target)

LinkedSource == SourcePath(LinkedFile.Source)

\* C11: when the target already is a symlink pointing exactly at the resolved
\* source path, linking the file is a no-op: no operation is executed and the
\* filesystem is as it was (in particular the symlink is not backed up).
C11_AlreadyLinkedIsNoOp ==
    (SingleLinked /\ entryFs[LinkedTarget] = Entry("symlink", LinkedSource)) =>
        (fs = entryFs /\ execLog = <<>>)

\* C12: scenario 1: for a file that is no template, whose source and target
\* are both missing, a successful link leaves the target a symlink to the
\* source and the source existing, so that the symlink does not dangle.
C12_MissingSourceGetsPlaceholder ==
    (/\ SingleLinked
     /\ ~LinkedFile.Template
     /\ ~Exists(entryFs, LinkedSource)
     /\ ~Exists(entryFs, LinkedTarget)) =>
        (fs[LinkedTarget] = Entry("symlink", LinkedSource) /\ Exists(fs, LinkedSource))

\* scenario 2 has run: a file that is no template, source missing, the target
\* a regular file of the user's, linked with success
Scenario2 ==
    /\ SingleLinked
    /\ ~LinkedFile.Template
    /\ ~Exists(entryFs, LinkedSource)
    /\ entryFs[LinkedTarget].e = "userFile"

\* C13: scenario 2: after the link the source holds the content the target
\* had, the target is a symlink to the source, and a backup beside the target
\* holds that content too.
C13_ExistingTargetPreserved ==
    Scenario2 =>
        /\ fs[LinkedSource] = Entry("copiedFile", entryFs[LinkedTarget].at)
        /\ fs[LinkedTarget] = Entry("symlink", LinkedSource)
        /\ \E s \in Stamps : fs[BackupPath(LinkedTarget, s)] = entryFs[LinkedTarget]

\* C13 witness: scenario 2 has run and the source is a copy
C13_Witness == Scenario2 /\ fs[LinkedSource].e = "copiedFile"

\* scenario 3 has run: the transaction of a template file started with a
\* TemplateOperation, whose rendering failed
Scenario3 ==
    /\ SingleReturned
    /\ Len(execLog) >= 1
    /\ operations[1].kind = "template"
    /\ execLog[1].err # ""

\* C14: scenario 3: the call returns an error, the link step never ran, the
\* target is exactly as before, and no new or partial file is left at the
\* output (source) path.
C14_RenderFailureLeavesNothing ==
    Scenario3 =>
        /\ result.err # ""
        /\ ret.cause = "process template"
        /\ Len(execLog) = 1
        /\ executed = <<>>
        /\ fs[LinkedTarget] = entryFs[LinkedTarget]
        /\ ~Exists(fs, LinkedSource)

\* applyAllConfigs has returned from atomicLinkAllConfigs
BatchReturned ==
    /\ entry = "returned"
    /\ result.call = "applyAllConfigs"
    /\ result.err # "config validation"

\* file n is linked: its target is a symlink to its source
Linked(n) ==
    fs[TargetPath(config.Files[n].Target)] = Entry("symlink", SourcePath(config.Files[n].Source))

\* C15: batch independence: when atomicLinkAllConfigs returns, every file was
\* attempted, every file whose transaction succeeded is linked, the call
\* returns success exactly when no file failed, and when exactly file j
\* failed the aggregate error lists file j and only file j.
C15_BatchIndependence ==
    BatchReturned =>
        /\ Len(allResults) = Len(config.Files)
        /\ \A n \in 1..Len(allResults) :
              /\ allResults[n].File = config.Files[n].Name
              /\ allResults[n].Success => Linked(n)
        /\ result.err = "" <=> \A n \in 1..Len(allResults) : allResults[n].Success
        /\ result.err = "" => result.failed = <<>>
        /\ \A k \in 1..Len(allResults) :
              (\A n \in 1..Len(allResults) : allResults[n].Success <=> n # k) =>
                  result.failed = <<config.Files[k].Name>>

\* C15 witness: of two files the transaction of the first failed after it
\* had touched the target, the second was linked all the same, and the error
\* lists the first only.
C15_Witness ==
    /\ BatchReturned
    /\ Len(config.Files) = 2
    /\ Len(allResults) = 2
    /\ ~allResults[1].Success
    /\ allResults[2].Success
    /\ Linked(2)
    /\ result.failed = <<<<"a">>>>
    /\ fs[TargetPath(1)] # entryFs[TargetPath(1)]

\* C16: when the configuration has validation errors, linkConfigFileAtomic
\* and applyAllConfigs return the validation error, and no transaction was
\* built or executed and the filesystem is as it was.
C16_ValidationBeforeMutation ==
    (entry # "none" /\ Validate(config, templates) # {}) =>
        /\ entry = "returned"
        /\ result.err = "config validation"
        /\ fs = entryFs
        /\ operations = <<>>
        /\ execCount = 0
        /\ execLog = <<>>

\* C16 witness: applyAllConfigs refused a manifest whose second file has the
\* target of the first, while the user's file was at that target.
C16_Witness ==
    /\ entry = "returned"
    /\ result = [call |-> "applyAllConfigs", err |-> "config validation", failed |-> <<>>]
    /\ \E n \in 1..Len(config.Files) : <<"target", "duplicate target", n>> \in Validate(config, templates)
    /\ fs[TargetPath(1)].e = "userFile"

\* C17: AddConfigFile of a file whose target is already tracked returns the
\* validation error and leaves the manifest (files, categories, variables
\* and the rest) as it was.
C17_DuplicateTargetLeavesManifest ==
    [][(result'.call = "AddConfigFile" /\ result'.err = "target already managed")
         => config' = config]_vars

\* C17 witness: AddConfigFile has refused a file for its target while two
\* files, categories included, were tracked.
C17_Witness ==
    /\ result.call = "AddConfigFile"
    /\ result.err = "target already managed"
    /\ Len(config.Files) = 2
    /\ Len(config.Categories) > 0

\* C18: in every manifest reached from the empty one by AddConfigFile,
\* RemoveConfigFile, ImportConfig (merging or replacing) and
\* updateFileStatuses, no two tracked files have the same target.
C18_TargetsUnique ==
    \A m, n \in 1..Len(config.Files) :
        m # n => config.Files[m].Target # config.Files[n].Target

\* C18 witness: after an import two files are tracked, and an AddConfigFile
\* on the target of one of them has been refused.
C18_Witness ==
    /\ config.Shell = "zsh"
    /\ Len(config.Files) = 2
    /\ config.Files[1].Target = 1
    /\ config.Files[2].Target = 2
    /\ result = [call |-> "AddConfigFile", err |-> "target already managed", failed |-> <<>>]

\* the source, joined with the dotfiles root, lies in the root
Contained(source) == HasPrefix(Join(DotfilesDir, source), DotfilesDir)

\* C19: source containment: no tracked file has a source that, joined with
\* the dotfiles root, resolves outside the root; AddConfigFile rejects it.
C19_SourceContained ==
    \A n \in 1..Len(config.Files) : Contained(config.Files[n].Source)

\* C20: in every manifest reached by AddConfigFile, RemoveConfigFile,
\* AddCategory and RemoveCategory, the category of each tracked file is empty
\* or is in the category list.
C20_CategoriesDeclared ==
    \A n \in 1..Len(config.Files) :
        config.Files[n].Category = <<>> \/ Contains(config.Categories, config.Files[n].Category)

\* C20 witness: RemoveCategory has refused to remove the category of a
\* tracked file.
C20_Witness ==
    /\ result.call = "RemoveCategory"
    /\ result.err = "category is used by file"
    /\ \E n \in 1..Len(config.Files) : config.Files[n].Category = <<"c">>

\* saveConfigSafe runs, has just returned, or was cut off by a crash
Saving == savePc # "idle" \/ result.call = "saveConfigSafe"

\* C21: the manifest file is never partial: at every step of saveConfigSafe,
\* after its return with or without an error, and after a crash, it holds
\* the whole document it held when the call began or the whole new one.
C21_ManifestFileAtomic ==
    /\ disk[configFile].state # "partial"
    /\ Saving => disk[configFile] \in {entryDoc, FileOf(Marshal(config))}

\* C21 witness: the process died while the temporary file was half written,
\* over an earlier manifest file that differs from the new document.
C21_Witness ==
    /\ savePc = "crashed"
    /\ disk[tempFile].state = "partial"
    /\ entryDoc.state = "complete"
    /\ entryDoc # FileOf(Marshal(config))
    /\ disk[configFile] = entryDoc

\* createAtomicLinkOperation has returned the plan of the file
PlanBuilt == entry = "createAtomicLinkOperation" /\ lastCall = "createAtomicLinkOperation"

PlannedFile == config.Files[fileIdx]

PlannedSource == SourcePath(PlannedFile.Source)

PlannedTarget == TargetPath(PlannedFile.Target)

\* C22: the plan ends with the one LinkOperation(source -> target); at most
\* one operation precedes it, and only when the source does not exist: for a
\* template file a TemplateOperation when a template is found and a
\* CopyOperation with the empty source when none is; with the source there
\* the plan is the LinkOperation alone.
C22_PlanShape ==
    PlanBuilt =>
        LET n == Len(operations)
        IN /\ n \in {1, 2}
           /\ operations[n].kind = "link"
           /\ operations[n].targetPath = PlannedTarget
           /\ operations[n].from = PlannedSource
           /\ n = 2 => (operations[1].kind # "link" /\ operations[1].targetPath = PlannedSource)
           /\ Stat(fs, PlannedSource) => n = 1
           /\ (PlannedFile.Template /\ ~Stat(fs, PlannedSource)) =>
                 /\ n = 2
                 /\ IF findTemplateFile(config, PlannedFile, templates) # NoTemplate
                    THEN operations[1].kind = "template"
                    ELSE operations[1].kind = "copy" /\ operations[1].sourcePath = ""

\* C22 witness: the plan of a template file without a template is the
\* placeholder CopyOperation, then the LinkOperation.
C22_Witness ==
    /\ PlanBuilt
    /\ PlannedFile.Template
    /\ findTemplateFile(config, PlannedFile, templates) = NoTemplate
    /\ Len(operations) = 2
    /\ operations[1].kind = "copy"
    /\ operations[1].sourcePath = ""
    /\ operations[2].kind = "link"

\* C23: for a file that is no template and whose source does not exist, the
\* plan holds a CopyOperation(target -> source) exactly when the target is a
\* real file or directory; for a target that is a symlink, dangling or not,
\* none is planned.
C23_CopyOnlyForRealTarget ==
    (PlanBuilt /\ ~PlannedFile.Template /\ ~Stat(fs, PlannedSource)) =>
        ((\E k \in 1..Len(operations) : operations[k].kind = "copy")
            <=> fs[PlannedTarget].e \in {"userFile", "userDir"})

\* C28: the lookup of the validation and the lookup of the plan builder
\* return the same template for every file and every set of template files
\* (here: once both have looked up the template of a template file).
C28_LookupsAgree ==
    (/\ PlanBuilt
     /\ result.call = "Validate"
     /\ PlannedFile.Template
     /\ ~Stat(fs, PlannedSource)) =>
        ConfigFindTemplateFile(config, PlannedFile, templates)
            = findTemplateFile(config, PlannedFile, templates)

\* C24: every Rollback of an operation attempts both sub-steps: what the
\* operation created is removed or the removal's error is reported, and,
\* also after a failed removal, the backup is moved back or that error is
\* reported; the Rollback reports failure exactly when a sub-step failed.
C24_RollbackAttemptsBoth ==
    [][Len(rbLog') = Len(rbLog) + 1 =>
         LET e == rbLog'[Len(rbLog')]
             op == operations[e.idx]
         IN /\ e.failed <=> e.errs # {}
            /\ (op.created /\ Exists(fs, op.targetPath)) =>
                  \/ "remove" \in e.errs
                  \/ ~Exists(fs', op.targetPath)
                  \/ op.backed /\ fs'[op.targetPath] = fs[op.backupPath]
            /\ (op.backed /\ op.backupPath # NoPath) =>
                  \/ "restore backup" \in e.errs
                  \/ /\ fs'[op.targetPath] = fs[op.backupPath]
                     /\ ~Exists(fs', op.backupPath)]_vars

\* C24 witness: the removal of a Rollback failed, and the backup was moved
\* back to the target all the same.
C24_Witness ==
    /\ Len(rbLog) = 1
    /\ rbLog[1].errs = {"remove"}
    /\ operations[rbLog[1].idx].backed
    /\ fs[operations[rbLog[1].idx].targetPath].e \in UserEntries
    /\ ~Exists(fs, operations[rbLog[1].idx].backupPath)

\* C25: whatever the sequence of Execute and Rollback calls on a
\* transaction, no operation's Execute is called twice and no operation's
\* Rollback is called twice.
C25_ExecutedAndRolledBackOnce ==
    /\ \A m, n \in 1..Len(execLog) : m # n => execLog[m].idx # execLog[n].idx
    /\ \A m, n \in 1..Len(rbLog) : m # n => rbLog[m].idx # rbLog[n].idx

\* C26: the batch runner is sequential and terminates: it goes to the next
\* file, in the order of the manifest, only when the transaction of the
\* file before has returned and its result is recorded, and the batch
\* always ends with one result per file.
C26_BatchSequentialAndTerminates ==
    /\ [][(entry = "applyAllConfigs" /\ fileIdx' # fileIdx) =>
            (fileIdx' = fileIdx + 1 /\ pc = "idle" /\ Len(allResults) = fileIdx)]_vars
    /\ (entry = "applyAllConfigs") ~>
            (BatchReturned /\ Len(allResults) = Len(config.Files)
                           /\ fileIdx = Len(config.Files))

\* C26 witness: the batch has ended with two files linked, one transaction
\* after the other.
C26_Witness ==
    /\ BatchReturned
    /\ Len(allResults) = 2
    /\ fileIdx = 2
    /\ allResults[1].Success
    /\ allResults[2].Success
    /\ Linked(1)
    /\ Linked(2)

\* C27: a manifest accessor (AddConfigFile, RemoveConfigFile, AddCategory,
\* RemoveCategory) that returns an error leaves the manifest as it was.
C27_FailedAccessorLeavesManifest ==
    [][(/\ result'.call \in {"AddConfigFile", "RemoveConfigFile", "AddCategory", "RemoveCategory"}
        /\ result'.err # "") => config' = config]_vars

\* the statuses were computed again after a link entry point returned
StatusRecomputed == entry = "returned" /\ result.call = "updateFileStatuses"

\* file n is shown as linked, without a conflict
ShownLinked(n) == config.Files[n].IsLinked /\ ~config.Files[n].HasConflict

ExecutedIsPrefix == executed = [n \in 1..Len(executed) |-> n]

\* the last operation Execute called has failed, and Execute has returned
ExecuteHasFailed ==
    /\ pc = "idle"
    /\ execLog # <<>>
    /\ execLog[Len(execLog)].err # ""

\* C30: during the first Execute, executed is the prefix of operations that
\* succeeded so far, in insertion order, and it is the whole list exactly
\* when Execute returns nil; after a failed Execute, executed is empty, and
\* a later Transaction.Rollback calls no operation's Rollback.
C30_ExecutedPrefixThenEmpty ==
    /\ [](/\ (execCount = 1 /\ pc = "executing") =>
                (ExecutedIsPrefix /\ Len(executed) = i - 1 /\ i <= Len(operations))
          /\ (execCount = 1 /\ pc = "rollback" /\ caller = "execute") =>
                (ExecutedIsPrefix /\ Len(executed) = i - 1 /\ i <= Len(operations))
          /\ (execCount = 1 /\ lastCall = "execute") =>
                /\ (ret = Nil) <=> (executed = [n \in 1..Len(operations) |-> n])
                /\ (ret # Nil) => (operations # <<>> /\ executed = <<>>)
          /\ ExecuteHasFailed => executed = <<>>)
    /\ [][(ExecuteHasFailed /\ lastCall' = "rollback") =>
             (rbLog' = rbLog /\ fs' = fs /\ pc' = "idle" /\ ret' = Nil)]_vars

\* C30 witness: the third operation of the first Execute failed after two
\* succeeded, both were rolled back, and the Rollback called afterwards has
\* returned.
C30_Witness ==
    /\ execCount = 1
    /\ Len(execLog) = 3
    /\ execLog[3].err # ""
    /\ Len(rbLog) = 2
    /\ lastCall = "rollback"
    /\ executed = <<>>

====
